---------------------------- MODULE Spec2Model ----------------------------
(***************************************************************************)
(* A model of the two benchmark scripts of the repository:                 *)
(*   comps/loops.py  the longest Collatz sequence under a limit            *)
(*   test.py         the first 20 Fibonacci numbers by naive recursion     *)
(* Both scripts are sequential; each is modelled as a state machine whose  *)
(* steps are the iterations of its loops and the calls and returns of its  *)
(* functions.                                                              *)
(***************************************************************************)
EXTENDS Integers, Sequences, FiniteSets, TLC

VARIABLES
    limit,       \* find_longest_collatz: the parameter
    max_length,  \* find_longest_collatz: best length so far
    number,      \* find_longest_collatz: start value of the best length
    i,           \* find_longest_collatz: loop counter
    length,      \* find_longest_collatz: the length of the last call
    cl_n,        \* collatz_length: its n
    cl_length,   \* collatz_length: its length
    pc,          \* position in loops.py
    fi,          \* test.py: the i of the for loop
    stack,       \* test.py: the call stack of fibo, innermost frame last
    ret,         \* test.py: the value the last fibo call returned
    ret_of,      \* test.py: the n of the fibo call that returned it
    out,         \* test.py: the lines printed so far
    fpc          \* position in test.py

collatzVars == <<limit, max_length, number, i, length, cl_n, cl_length, pc>>
fiboVars == <<fi, stack, ret, ret_of, out, fpc>>
vars == <<limit, max_length, number, i, length, cl_n, cl_length, pc,
          fi, stack, ret, ret_of, out, fpc>>

-----------------------------------------------------------------------------
(* Bounds of the model and constants of the program *)

\* the limits tried are -NegLimits .. MaxLimit
NegLimits == 2
MaxLimit == 40
\* loops.py: limit = 10_000
DriverLimit == 10000
\* test.py: range(20)
FiboCount == 20
\* the elapsed time printed last is one of 0 .. MaxElapsed
MaxElapsed == 2

-----------------------------------------------------------------------------
(* comps/loops.py *)

(* Python floats: below 2^53 every value met here is an integer or an       *)
(* integer plus one half, and the operations on them are exact.  A float is *)
(* modelled by the number of halves it holds (the float x is the integer    *)
(* 2x).                                                                     *)
FloatOfInt(k) == 2 * k

\* n / 2 with two ints: Python 3 true division, a float
TrueDivBy2(k) == k

\* x * 2 with x a float
FloatTimes2(x) == 2 * x

\* n - x with n an int and x a float: the int is converted, the result a float
IntMinusFloat(k, x) == FloatOfInt(k) - x

\* def is_even(n): return n - (n/2) *2 == 0
is_even(k) == IntMinusFloat(k, FloatTimes2(TrueDivBy2(k))) = 0

\* a slip: the quotient by 1 instead of 2
DivBy1(k) == k \div 1

\* n // 2
FloorDivBy2(k) == k \div 2

\* the body of the while loop of collatz_length: the next n
NextN(k) == IF is_even(k) THEN FloorDivBy2(k) ELSE 3 * k + 1

\* while n != 1
Looping(k) == k # 1

\* collatz_length as a function of its argument
RECURSIVE collatz_length(_)
collatz_length(k) == IF Looping(k) THEN collatz_length(NextN(k)) + 1 ELSE 1

\* a slip: the scan runs one past the limit
InScanOnePast(j, lim) == j <= lim + 1

\* while i <= limit
InScan(j, lim) == j <= lim

\* a slip: a tie replaces the best record too
BetterOrEqual(len, best) == len >= best

\* if length > max_length
Better(len, best) == len > best

InitCollatz ==
    /\ max_length = 0
    /\ number = 1
    /\ i = 1
    /\ length = 0
    /\ cl_n = 0
    /\ cl_length = 0
    /\ pc = "while"

\* while i <= limit: length = collatz_length(i), the call
ScanCall ==
    /\ pc = "while"
    /\ InScan(i, limit)
    /\ cl_n' = i
    /\ cl_length' = 1
    /\ pc' = "collatz"
    /\ UNCHANGED <<limit, max_length, number, i, length>>
    /\ UNCHANGED fiboVars

\* one iteration of the while loop of collatz_length
CollatzStep ==
    /\ pc = "collatz"
    /\ Looping(cl_n)
    /\ cl_n' = NextN(cl_n)
    /\ cl_length' = cl_length + 1
    /\ UNCHANGED <<limit, max_length, number, i, length, pc>>
    /\ UNCHANGED fiboVars

\* return length
CollatzReturn ==
    /\ pc = "collatz"
    /\ ~Looping(cl_n)
    /\ length' = cl_length
    /\ pc' = "compare"
    /\ UNCHANGED <<limit, max_length, number, i, cl_n, cl_length>>
    /\ UNCHANGED fiboVars

\* if length > max_length: ...; i += 1
ScanUpdate ==
    /\ pc = "compare"
    /\ IF Better(length, max_length)
          THEN max_length' = length /\ number' = i
          ELSE UNCHANGED <<max_length, number>>
    /\ i' = i + 1
    /\ pc' = "while"
    /\ UNCHANGED <<limit, length, cl_n, cl_length>>
    /\ UNCHANGED fiboVars

\* return number, max_length
ScanReturn ==
    /\ pc = "while"
    /\ ~InScan(i, limit)
    /\ pc' = "done"
    /\ UNCHANGED <<limit, max_length, number, i, length, cl_n, cl_length>>
    /\ UNCHANGED fiboVars

NextCollatz ==
    \/ ScanCall
    \/ CollatzStep
    \/ CollatzReturn
    \/ ScanUpdate
    \/ ScanReturn

-----------------------------------------------------------------------------
(* test.py *)

\* a frame of fibo: its n, where it stands, and the value of fibo(n-2) once known
Frame(k) == [n |-> k, at |-> "enter", a |-> 0]

Top == stack[Len(stack)]

Pop == SubSeq(stack, 1, Len(stack) - 1)

\* the top frame replaced by f and the frame g pushed above it
ReplaceAndPush(f, g) == Append(Append(Pop, f), g)

\* a slip: the guard misses n = 1
BaseCaseStrict(k) == k < 1

\* if n<=1
BaseCase(k) == k <= 1

\* a slip: the loop runs once more
InRangeInclusive(k) == k <= FiboCount

\* for i in range(20)
InRange(k) == k < FiboCount

InitFibo ==
    /\ fi = 0
    /\ stack = <<>>
    /\ ret = 0
    /\ ret_of = 0
    /\ out = <<>>
    /\ fpc = "for"

\* for i in range(20): print(fibo(i)), the call of fibo(i)
ForCall ==
    /\ fpc = "for"
    /\ InRange(fi)
    /\ stack' = <<Frame(fi)>>
    /\ fpc' = "call"
    /\ UNCHANGED <<fi, ret, ret_of, out>>
    /\ UNCHANGED collatzVars

\* if n<=1: return n
FiboBase ==
    /\ fpc = "call"
    /\ BaseCase(Top.n)
    /\ ret' = Top.n
    /\ ret_of' = Top.n
    /\ stack' = Pop
    /\ fpc' = "return"
    /\ UNCHANGED <<fi, out>>
    /\ UNCHANGED collatzVars

\* return fibo(n-2) + fibo(n-1): the call of fibo(n-2)
FiboFirst ==
    /\ fpc = "call"
    /\ ~BaseCase(Top.n)
    /\ stack' = ReplaceAndPush([Top EXCEPT !.at = "first"], Frame(Top.n - 2))
    /\ UNCHANGED <<fi, ret, ret_of, out, fpc>>
    /\ UNCHANGED collatzVars

\* return fibo(n-2) + fibo(n-1): fibo(n-2) has returned, the call of fibo(n-1)
FiboSecond ==
    /\ fpc = "return"
    /\ stack # <<>>
    /\ Top.at = "first"
    /\ stack' = ReplaceAndPush([Top EXCEPT !.at = "second", !.a = ret],
                               Frame(Top.n - 1))
    /\ fpc' = "call"
    /\ UNCHANGED <<fi, ret, ret_of, out>>
    /\ UNCHANGED collatzVars

\* return fibo(n-2) + fibo(n-1): fibo(n-1) has returned, the sum is returned
FiboSum ==
    /\ fpc = "return"
    /\ stack # <<>>
    /\ Top.at = "second"
    /\ ret' = Top.a + ret
    /\ ret_of' = Top.n
    /\ stack' = Pop
    /\ UNCHANGED <<fi, out, fpc>>
    /\ UNCHANGED collatzVars

\* print(fibo(i)): fibo(i) has returned to the loop
PrintValue ==
    /\ fpc = "return"
    /\ stack = <<>>
    /\ out' = Append(out, [kind |-> "value", val |-> ret])
    /\ fi' = fi + 1
    /\ fpc' = "for"
    /\ UNCHANGED <<stack, ret, ret_of>>
    /\ UNCHANGED collatzVars

\* print("loop took"), once the for loop is over
PrintMarker ==
    /\ fpc = "for"
    /\ ~InRange(fi)
    /\ out' = Append(out, [kind |-> "marker", val |-> "loop took"])
    /\ fpc' = "time"
    /\ UNCHANGED <<fi, stack, ret, ret_of>>
    /\ UNCHANGED collatzVars

\* print(time()-start): the clock decides the value
PrintElapsed ==
    /\ fpc = "time"
    /\ \E e \in 0 .. MaxElapsed :
          out' = Append(out, [kind |-> "time", val |-> e])
    /\ fpc' = "done"
    /\ UNCHANGED <<fi, stack, ret, ret_of>>
    /\ UNCHANGED collatzVars

NextFibo ==
    \/ ForCall
    \/ FiboBase
    \/ FiboFirst
    \/ FiboSecond
    \/ FiboSum
    \/ PrintValue
    \/ PrintMarker
    \/ PrintElapsed

-----------------------------------------------------------------------------
(* Specifications *)

\* find_longest_collatz called with any limit of -NegLimits .. MaxLimit
Init ==
    /\ limit \in (0 - NegLimits) .. MaxLimit
    /\ InitCollatz
    /\ InitFibo

Next == NextCollatz

Spec == Init /\ [][Next]_vars

\* the script loops.py: find_longest_collatz(10_000)
InitDriver ==
    /\ limit = DriverLimit
    /\ InitCollatz
    /\ InitFibo

DriverSpec == InitDriver /\ [][Next]_vars

\* a sequential program takes its next step as long as it has one
FairDriverSpec == DriverSpec /\ WF_vars(Next)

\* the script test.py
InitScript ==
    /\ limit = DriverLimit
    /\ InitCollatz
    /\ InitFibo

FiboSpec == InitScript /\ [][NextFibo]_vars

FairFiboSpec == FiboSpec /\ WF_vars(NextFibo)

-----------------------------------------------------------------------------
(* Properties *)

\* the Collatz rule of the reference: n even -> n div 2, n odd -> 3n+1
RefNext(k) == IF k % 2 = 0 THEN k \div 2 ELSE 3 * k + 1

\* the number of elements of the Collatz sequence from k down to 1
RECURSIVE RefLength(_)
RefLength(k) == IF k = 1 THEN 1 ELSE RefLength(RefNext(k)) + 1

\* the 20 values fibo(0) .. fibo(19)
Expected == <<0, 1, 1, 2, 3, 5, 8, 13, 21, 34, 55, 89, 144, 233, 377, 610,
              987, 1597, 2584, 4181>>

\* C1: find_longest_collatz(10000) returns (6171, 262).
C1_DriverResult ==
    (pc = "done" /\ limit = DriverLimit) => (number = 6171 /\ max_length = 262)

\* C2: whenever collatz_length(i) returns, its result is the number of
\* elements of the Collatz sequence of the reference rule starting at i.
C2_LengthIsReference ==
    pc = "compare" => length = RefLength(i)

\* C3: for every n the loop of collatz_length passes to is_even, is_even(n)
\* is true exactly when n modulo 2 is 0.
C3_ParityAgrees ==
    (pc = "collatz" /\ Looping(cl_n)) => (is_even(cl_n) <=> cl_n % 2 = 0)

\* C4: for every limit >= 1 the result (number, max_length) is the maximum of
\* collatz_length over 1..limit and the smallest i that attains it.
C4_MaxAndSmallest ==
    (pc = "done" /\ limit >= 1) =>
        /\ number \in 1 .. limit
        /\ max_length = collatz_length(number)
        /\ \A j \in 1 .. limit : collatz_length(j) <= max_length
        /\ \A j \in 1 .. (number - 1) : collatz_length(j) < max_length

\* a scan that ended with a tie for the maximum
C4_Witness ==
    /\ pc = "done"
    /\ limit >= 1
    /\ \E j \in 1 .. limit : j # number /\ collatz_length(j) = max_length

\* C5: in the scan of 1..10000 each iteration of the loop of collatz_length
\* brings n strictly closer to 1 and counts one step (nothing else bounds the
\* loop), every call of collatz_length returns, and the scan ends having
\* called it for every i of 1..10000.
C5_StepDecreases ==
    (pc = "collatz" /\ Looping(cl_n)) =>
        /\ pc' = "collatz"
        /\ 1 <= cl_n' /\ cl_n' < cl_n
        /\ cl_length' = cl_length + 1

C5_Terminates ==
    /\ [][C5_StepDecreases]_vars
    /\ (pc = "collatz") ~> (pc = "compare")
    /\ <>(pc = "done" /\ i = DriverLimit + 1)

\* the last call of the scan, collatz_length(10000), has returned
C5_Witness ==
    pc = "compare" /\ i = DriverLimit /\ length = 14

\* C6: every call fibo(n) the script makes, nested calls included, has n in
\* 0..19 and returns the value of index n in 0,1,1,2,...,4181 (fibo(0) = 0,
\* fibo(1) = 1), which is fibo(n-1) + fibo(n-2) from n = 2 on; every call
\* returns to the loop and the script ends.
C6_Returned ==
    fpc = "return" =>
        /\ ret_of \in 0 .. (FiboCount - 1)
        /\ ret = Expected[ret_of + 1]
        /\ ret_of >= 2 => ret = Expected[ret_of] + Expected[ret_of - 1]

C6_FiboValues ==
    /\ []C6_Returned
    /\ (fpc = "call") ~> (fpc = "return" /\ stack = <<>>)
    /\ <>(fpc = "done")

\* fibo(19) has returned 4181 to the loop
C6_Witness ==
    fpc = "return" /\ stack = <<>> /\ ret_of = 19 /\ ret = 4181

\* C7: the output is always a prefix of: the 20 values fibo(0)..fibo(19), the
\* marker line, one timing line; fibo(i) is computed only when exactly the i
\* values before it are printed; the finished script has printed all 22 lines.
C7_OutputOrder ==
    /\ Len(out) <= FiboCount + 2
    /\ \A k \in 1 .. Len(out) :
          /\ k <= FiboCount =>
                out[k].kind = "value" /\ out[k].val = Expected[k]
          /\ k = FiboCount + 1 =>
                out[k] = [kind |-> "marker", val |-> "loop took"]
          /\ k = FiboCount + 2 => out[k].kind = "time"
    /\ fpc \in {"call", "return"} => (Len(out) = fi /\ fi < FiboCount)
    /\ fpc = "time" => Len(out) = FiboCount + 1
    /\ fpc = "done" => Len(out) = FiboCount + 2

\* the script has ended
C7_Witness ==
    fpc = "done" /\ Len(out) = FiboCount + 2 /\ out[FiboCount + 2].kind = "time"

\* C8: with limit < 1 the loop body never runs, collatz_length is never
\* called and the result is (1, 0); with limit = 1 the result is (1, 1).
C8_Degenerate ==
    /\ limit < 1 =>
          /\ pc \in {"while", "done"}
          /\ i = 1
          /\ cl_n = 0 /\ cl_length = 0 /\ length = 0
          /\ pc = "done" => (number = 1 /\ max_length = 0)
    /\ (limit = 1 /\ pc = "done") => (number = 1 /\ max_length = 1)

\* a call with a negative limit has returned
C8_Witness ==
    limit < 0 /\ pc = "done" /\ number = 1 /\ max_length = 0

\* C9: the loop invariant of the scan.
C9_AtLoopHead ==
    /\ i >= 1
    /\ i <= limit + 1 \/ i = 1
    /\ (pc = "while" /\ i > 1) =>
          /\ 1 <= number /\ number < i
          /\ max_length = collatz_length(number)
          /\ \A j \in 1 .. (i - 1) : max_length >= collatz_length(j)

C9_Step ==
    /\ i' = i \/ i' = i + 1
    /\ max_length' >= max_length
    /\ <<number', max_length'>> # <<number, max_length>> =>
          /\ pc = "compare"
          /\ length > max_length
          /\ number' = i /\ max_length' = length

C9_LoopInvariant ==
    /\ []C9_AtLoopHead
    /\ [][C9_Step]_vars

\* a loop head after an iteration that kept the record of an earlier one
C9_Witness ==
    pc = "while" /\ number > 1 /\ i > number + 1 /\ length <= max_length

\* C10: in collatz_length an odd n > 1 is followed by 3n+1, a value above the
\* starting value, and n stays >= 1.
C10_OddBranchTaken ==
    [][(pc = "collatz" /\ cl_n > 1 /\ cl_n % 2 = 1) =>
          (cl_n' = 3 * cl_n + 1 /\ cl_n' > i /\ cl_n' >= 1)]_vars

=============================================================================
